---- MODULE Spec2Model ----
(***************************************************************************)
(* Embedding cache lifecycle and similarity retrieval of the Sesame chat   *)
(* bot (src/SesameChat.py, src/SesameChatAPI.py).                          *)
(*                                                                         *)
(* Texts, file contents and digests are sequences of one-character         *)
(* strings.  Embedding vectors are pairs of integers.  A tensor is a       *)
(* record [shape, data] with the data stored flat, as torch stores it.     *)
(***************************************************************************)
EXTENDS Integers, Sequences, FiniteSets, TLC

(***************************************************************************)
(* Bounds of the model.                                                    *)
(***************************************************************************)
\* most /chat or console questions asked of one process
MaxChats == 1
\* largest top_k handed to get_relevant_context in the retrieval check
MaxK == 3
\* most rows of a matrix handed to get_relevant_context in the retrieval check
MaxRows == 3

(***************************************************************************)
(* Program constants.                                                      *)
(***************************************************************************)
\* top_k=3 in ollama_chat's call of get_relevant_context
TOP_K == 3

Whitespace == {" ", "\n"}

(***************************************************************************)
(* Sequence helpers.                                                       *)
(***************************************************************************)
RECURSIVE Flatten(_)
Flatten(ss) == IF ss = <<>> THEN <<>> ELSE Head(ss) \o Flatten(Tail(ss))

RECURSIVE Join(_, _)
\* sep.join(ss)
Join(ss, sep) ==
    IF ss = <<>> THEN <<>>
    ELSE IF Len(ss) = 1 THEN ss[1]
    ELSE ss[1] \o sep \o Join(Tail(ss), sep)

RECURSIVE LStrip(_)
LStrip(s) == IF s # <<>> /\ Head(s) \in Whitespace THEN LStrip(Tail(s)) ELSE s

RECURSIVE RStrip(_)
RStrip(s) ==
    IF s # <<>> /\ s[Len(s)] \in Whitespace
    THEN RStrip(SubSeq(s, 1, Len(s) - 1))
    ELSE s

\* str.strip()
Strip(s) == RStrip(LStrip(s))

RECURSIVE ReadLinesFrom(_, _)
\* file.readlines(): every line keeps its terminator; cur is the line so far
ReadLinesFrom(bytes, cur) ==
    IF bytes = <<>> THEN (IF cur = <<>> THEN <<>> ELSE <<cur>>)
    ELSE IF Head(bytes) = "\n"
         THEN <<Append(cur, "\n")>> \o ReadLinesFrom(Tail(bytes), <<>>)
         ELSE ReadLinesFrom(Tail(bytes), Append(cur, Head(bytes)))

ReadLines(bytes) == ReadLinesFrom(bytes, <<>>)

(***************************************************************************)
(* compute_md5: a digest of the bytes of the file, as a string of hex      *)
(* digits.  The digest is modelled by a numbering of the byte strings      *)
(* that is one-to-one on the files of the model.                           *)
(***************************************************************************)
ByteCode(c) ==
    CASE c = "a" -> 1 [] c = "b" -> 2 [] c = "c" -> 3 [] c = " " -> 4 [] OTHER -> 5

RECURSIVE HashNum(_)
HashNum(bytes) ==
    IF bytes = <<>> THEN 0 ELSE ByteCode(Head(bytes)) + 6 * HashNum(Tail(bytes))

HexDigits == <<"0", "1", "2", "3", "4", "5", "6", "7", "8", "9",
               "a", "b", "c", "d", "e", "f">>

RECURSIVE HexDigest(_)
HexDigest(n) ==
    IF n < 16 THEN <<HexDigits[n + 1]>>
    ELSE Append(HexDigest(n \div 16), HexDigits[(n % 16) + 1])

compute_md5(bytes) == HexDigest(HashNum(bytes))

(***************************************************************************)
(* The embedding service (ollama.embeddings).  The vector of a text is the *)
(* sum of the vectors of its characters; white space adds nothing.  A      *)
(* response is a dict: with the key "embedding" on success, without it on  *)
(* failure.                                                                *)
(***************************************************************************)
CharVec(c) ==
    CASE c = "a" -> <<1, 0>> [] c = "b" -> <<0, 1>> [] c = "c" -> <<-1, 0>>
      [] OTHER -> <<0, 0>>

RECURSIVE Embed(_)
Embed(text) ==
    IF text = <<>> THEN <<0, 0>>
    ELSE LET h == CharVec(Head(text))
             r == Embed(Tail(text))
         IN  <<h[1] + r[1], h[2] + r[2]>>

EmbeddingsResponses(prompt) ==
    {[embedding |-> Embed(prompt)], [error |-> "failed"]}

(***************************************************************************)
(* Tensors.                                                                *)
(***************************************************************************)
\* torch.tensor(list of rows); torch.tensor([]) has shape (0,)
torch_tensor(rows) ==
    IF rows = <<>> THEN [shape |-> <<0>>, data |-> <<>>]
    ELSE [shape |-> <<Len(rows), Len(rows[1])>>, data |-> Flatten(rows)]

RECURSIVE Product(_)
Product(s) == IF s = <<>> THEN 1 ELSE Head(s) * Product(Tail(s))

\* Tensor.nelement()
nelement(t) == Product(t.shape)

NumRows(t) == t.shape[1]

\* the number of rows, also of the tensor of shape (0,)
RowCount(t) == IF nelement(t) = 0 THEN 0 ELSE NumRows(t)

\* row i (from 0) of a two-dimensional tensor
Row(t, i) == SubSeq(t.data, i * t.shape[2] + 1, (i + 1) * t.shape[2])

RowsOf(t) == [i \in 1..RowCount(t) |-> Row(t, i - 1)]

\* torch.save writes a pickle of the tensor; torch.load reads it back and
\* raises on bytes that are no complete pickle
torch_save(t) == [magic |-> "PK", shape |-> t.shape, data |-> t.data]

Loadable(pickle) == pickle.magic = "PK"

torch_load(pickle) == [shape |-> pickle.shape, data |-> pickle.data]

\* the bytes an interrupted torch.save leaves behind, or a damaged file
PartialPickle == [magic |-> "", shape |-> <<>>, data |-> <<>>]

(***************************************************************************)
(* Cosine similarity.  A score is kept exactly, as the fraction num / den  *)
(* whose value is sgn(c) * c^2 for the cosine c: the map is increasing,    *)
(* so scores compare as the cosines do.  torch divides by                  *)
(* max(|q| * |v|, eps), so a zero vector scores 0.                         *)
(***************************************************************************)
Dot(u, v) == u[1] * v[1] + u[2] * v[2]

Sgn(x) == IF x > 0 THEN 1 ELSE IF x < 0 THEN -1 ELSE 0

CosScore(q, v) ==
    IF Dot(q, q) * Dot(v, v) = 0 THEN [num |-> 0, den |-> 1]
    ELSE [num |-> Sgn(Dot(q, v)) * Dot(q, v) * Dot(q, v),
          den |-> Dot(q, q) * Dot(v, v)]

ScoreLess(a, b) == a.num * b.den < b.num * a.den

\* torch.cosine_similarity(q.unsqueeze(0), m): one score per row of m
cosine_similarity(q, m) == [i \in 1..NumRows(m) |-> CosScore(q, Row(m, i - 1))]

Min(a, b) == IF a < b THEN a ELSE b

(***************************************************************************)
(* torch.topk(scores, k)[1]: the indices (from 0) of the k largest scores, *)
(* largest first.  Which of several equal scores comes first is not        *)
(* specified, so the result is a set of index sequences.                   *)
(***************************************************************************)
\* the selection with largest=False: the lowest scores first
Smallest(scores, rest) ==
    {i \in rest : \A j \in rest : ~ScoreLess(scores[j + 1], scores[i + 1])}

Largest(scores, rest) ==
    {i \in rest : \A j \in rest : ~ScoreLess(scores[i + 1], scores[j + 1])}

RECURSIVE TopKFrom(_, _, _)
TopKFrom(scores, rest, k) ==
    IF k = 0 THEN {<<>>}
    ELSE UNION {{<<i>> \o tl : tl \in TopKFrom(scores, rest \ {i}, k - 1)} :
                i \in Largest(scores, rest)}

topk(scores, k) == TopKFrom(scores, 0..(Len(scores) - 1), k)

(***************************************************************************)
(* get_relevant_context (SesameChat.py 60-73, SesameChatAPI.py 59-66).     *)
(* response is what the embedding service answers for the query when it    *)
(* is asked.  The result is the set of outcomes the call can have: a       *)
(* returned list of texts or a raised exception, and whether the service   *)
(* was called.                                                             *)
(***************************************************************************)
Returned(v, idx, c) ==
    [kind |-> "return", value |-> v, indices |-> idx, called |-> c, error |-> ""]

Raised(e, c) ==
    [kind |-> "raise", value |-> <<>>, indices |-> <<>>, called |-> c, error |-> e]

ContextOf(top_indices, content) ==
    IF \E n \in 1..Len(top_indices) : top_indices[n] >= Len(content)
    THEN Raised("IndexError", TRUE)
    ELSE Returned([n \in 1..Len(top_indices) |->
                      Strip(content[top_indices[n] + 1])], top_indices, TRUE)

ClampTopK(k, scores) == Min(k, Len(scores))

\* the function without its check for an empty tensor (lines 61-62)
get_relevant_context_unguarded(response, embeddings, content, k) ==
    IF "embedding" \notin DOMAIN response THEN {Raised("KeyError", TRUE)}
    ELSE LET cos_scores == [i \in 1..RowCount(embeddings) |->
                               CosScore(response.embedding, Row(embeddings, i - 1))]
             top_k == ClampTopK(k, cos_scores)
         IN  {ContextOf(idx, content) : idx \in topk(cos_scores, top_k)}

get_relevant_context(response, embeddings, content, k) ==
    IF nelement(embeddings) = 0 THEN {Returned(<<>>, <<>>, FALSE)}
    ELSE IF "embedding" \notin DOMAIN response THEN {Raised("KeyError", TRUE)}
    ELSE LET cos_scores == cosine_similarity(response.embedding, embeddings)
             top_k == ClampTopK(k, cos_scores)
         IN  IF top_k > Len(cos_scores) THEN {Raised("RuntimeError", TRUE)}
             ELSE {ContextOf(idx, content) : idx \in topk(cos_scores, top_k)}

(***************************************************************************)
(* Files.  A file is a record: whether it exists, whether its bytes can    *)
(* be decoded when read as text, and its content.                          *)
(***************************************************************************)
File(c) == [exists |-> TRUE, readable |-> TRUE, content |-> c]

AbsentText == [exists |-> FALSE, readable |-> FALSE, content |-> <<>>]

UndecodableText == [exists |-> TRUE, readable |-> FALSE, content |-> <<>>]

AbsentPickle == [exists |-> FALSE, readable |-> FALSE, content |-> PartialPickle]

(***************************************************************************)
(* Inputs: the lines and contents of vault.txt, and the questions.         *)
(***************************************************************************)
Line1 == <<"a", "a", "b", "\n">>
Line2 == <<" ", "b", " ", "\n">>
Line3 == <<"c", "b">>

\* vault.txt: empty, one line, a line appended, the lines reordered
VaultContents ==
    { <<>>,
      Line1,
      Line1 \o Line2,
      Line2 \o Line1 }

Queries == { <<"a">>, <<"c", "b">> }

Replies == { <<"r">> }

Procs == {"main", "other"}
MainProc == "main"
Threads == {"t1", "t2"}
MainThread == "t1"

EmptyTensor == torch_tensor(<<>>)
NoRecord == [set |-> FALSE, matrix |-> EmptyTensor]
NoOutcome ==
    [kind |-> "none", value |-> <<>>, indices |-> <<>>, called |-> FALSE, error |-> ""]

VARIABLES
    vaultFile,            \* vault.txt
    embFile,              \* vault_embeddings.pt
    checksumFile,         \* vault_checksum.txt
    pc,                   \* where each process is
    vault_content,        \* the lines each process read at start-up
    saved_checksum,       \* locals of load_or_generate_embeddings
    current_checksum,
    vault_embeddings,
    tensor,               \* vault_embeddings_tensor of each process
    exc,                  \* the exception that ended a process
    calls,                \* the calls a process made of the embedding service
                          \* in load_or_generate_embeddings, in order: the
                          \* prompt and whether a vector came back
    srcBytes,             \* the bytes of vault.txt each process read its
                          \* lines from
    path,                 \* "fast", "slow" or "none": how the call returned
    validRec,             \* the cache record last persisted completely and
                          \* not touched since, nor the vault edited since
    startRec,             \* validRec when each process entered the call
    startStale,           \* whether, when it entered the call, no fingerprint
                          \* was persisted or it was not the vault's
    disturbed,            \* whether a file was edited under the running call
    embSrc,               \* the vault bytes the matrix on disk was made from
    embFp,                \* the fingerprint its writer had computed
    cpc,                  \* where each chat request is
    user_input,
    top_k,
    relevant_context,
    outcome,              \* how get_relevant_context ended for the request
    request,              \* the messages of the completion request sent
    response,             \* the completion response
    conversation_history,
    asked                 \* questions asked of the main process so far

fileVars == <<vaultFile, embFile, checksumFile>>
ghostVars == <<validRec, embSrc, embFp>>
callVars == <<vault_content, saved_checksum, current_checksum,
              vault_embeddings, tensor, exc, calls, srcBytes, path, startRec,
              startStale, disturbed>>
loadVars == <<pc, callVars>>
chatVars == <<cpc, user_input, top_k, relevant_context, outcome, request,
              response, conversation_history, asked>>
vars == <<fileVars, ghostVars, loadVars, chatVars>>

(***************************************************************************)
(* The state before any process has run: a vault, no cache.                *)
(***************************************************************************)
InitLocals ==
    /\ pc = [p \in Procs |-> "idle"]
    /\ vault_content = [p \in Procs |-> <<>>]
    /\ saved_checksum = [p \in Procs |-> <<>>]
    /\ current_checksum = [p \in Procs |-> <<>>]
    /\ vault_embeddings = [p \in Procs |-> <<>>]
    /\ tensor = [p \in Procs |-> EmptyTensor]
    /\ exc = [p \in Procs |-> ""]
    /\ calls = [p \in Procs |-> <<>>]
    /\ srcBytes = [p \in Procs |-> <<>>]
    /\ path = [p \in Procs |-> "none"]
    /\ startRec = [p \in Procs |-> NoRecord]
    /\ startStale = [p \in Procs |-> FALSE]
    /\ disturbed = [p \in Procs |-> FALSE]

InitChat ==
    /\ cpc = [t \in Threads |-> "idle"]
    /\ user_input = [t \in Threads |-> <<>>]
    /\ top_k = [t \in Threads |-> TOP_K]
    /\ relevant_context = [t \in Threads |-> <<>>]
    /\ outcome = [t \in Threads |-> NoOutcome]
    /\ request = [t \in Threads |-> <<>>]
    /\ response = [t \in Threads |-> "none"]
    /\ conversation_history = <<>>
    /\ asked = 0

Init ==
    /\ vaultFile \in {File(c) : c \in VaultContents} \cup {AbsentText}
    /\ embFile = AbsentPickle
    /\ checksumFile = AbsentText
    /\ validRec = NoRecord
    /\ embSrc = <<>>
    /\ embFp = <<>>
    /\ InitLocals
    /\ InitChat

(***************************************************************************)
(* Start-up and load_or_generate_embeddings, one action per step that      *)
(* reads or writes a file or calls the embedding service.                  *)
(***************************************************************************)
\* the locals of the call as they are when it is entered
ResetCall(p) ==
    /\ saved_checksum' = [saved_checksum EXCEPT ![p] = <<>>]
    /\ current_checksum' = [current_checksum EXCEPT ![p] = <<>>]
    /\ vault_embeddings' = [vault_embeddings EXCEPT ![p] = <<>>]
    /\ tensor' = [tensor EXCEPT ![p] = EmptyTensor]
    /\ exc' = [exc EXCEPT ![p] = ""]
    /\ calls' = [calls EXCEPT ![p] = <<>>]
    /\ path' = [path EXCEPT ![p] = "none"]

\* an exception nobody catches ends the process
Raise(p, e) ==
    /\ pc' = [pc EXCEPT ![p] = "raised"]
    /\ exc' = [exc EXCEPT ![p] = e]

\* the vault is there and its fingerprint is not the persisted one, or
\* none is persisted
FingerprintStale ==
    /\ vaultFile.exists
    /\ ~(/\ checksumFile.exists /\ checksumFile.readable
         /\ checksumFile.content = compute_md5(vaultFile.content))

\* SesameChat.py 115-122: read the lines of the vault, enter the call
StartUp(p) ==
    /\ pc[p] = "idle"
    /\ pc' = [pc EXCEPT ![p] = "read_checksum"]
    /\ vault_content' = [vault_content EXCEPT ![p] =
           IF vaultFile.exists THEN ReadLines(vaultFile.content) ELSE <<>>]
    /\ srcBytes' = [srcBytes EXCEPT ![p] = vaultFile.content]
    /\ ResetCall(p)
    /\ startRec' = [startRec EXCEPT ![p] = validRec]
    /\ startStale' = [startStale EXCEPT ![p] = FingerprintStale]
    /\ disturbed' = [disturbed EXCEPT ![p] = FALSE]
    /\ UNCHANGED <<fileVars, ghostVars, chatVars>>

\* SesameChat.py 29-33
ReadChecksum(p) ==
    /\ pc[p] = "read_checksum"
    /\ IF checksumFile.exists /\ ~checksumFile.readable
       THEN /\ Raise(p, "UnicodeDecodeError")
            /\ UNCHANGED saved_checksum
       ELSE /\ pc' = [pc EXCEPT ![p] = "compute_md5"]
            /\ saved_checksum' = [saved_checksum EXCEPT ![p] =
                   IF checksumFile.exists THEN Strip(checksumFile.content)
                   ELSE <<>>]
            /\ UNCHANGED exc
    /\ UNCHANGED <<fileVars, ghostVars, vault_content, current_checksum,
                   vault_embeddings, tensor, calls, srcBytes, path, startRec,
                   startStale, disturbed, chatVars>>

\* SesameChat.py 35 and 20-25: open() raises when vault.txt is missing
ComputeMd5(p) ==
    /\ pc[p] = "compute_md5"
    /\ IF vaultFile.exists
       THEN /\ pc' = [pc EXCEPT ![p] = "check"]
            /\ current_checksum' = [current_checksum EXCEPT ![p] =
                   compute_md5(vaultFile.content)]
            /\ UNCHANGED exc
       ELSE /\ Raise(p, "FileNotFoundError")
            /\ UNCHANGED current_checksum
    /\ UNCHANGED <<fileVars, ghostVars, vault_content, saved_checksum,
                   vault_embeddings, tensor, calls, srcBytes, path, startRec,
                   startStale, disturbed, chatVars>>

\* the test of line 37 with the comparison turned round
CacheHitOnMismatch(p) == saved_checksum[p] # current_checksum[p] /\ embFile.exists

\* SesameChat.py 37: the cache is used when this holds
CacheHit(p) == saved_checksum[p] = current_checksum[p] /\ embFile.exists

\* a list that starts from the rows of the matrix on disk
CachedEmbeddings ==
    IF embFile.exists /\ Loadable(embFile.content)
    THEN RowsOf(torch_load(embFile.content))
    ELSE <<>>

\* SesameChat.py 42: the list the loop fills starts empty
NewEmbeddings == <<>>

\* SesameChat.py 37-42: return the cached matrix, or start generating
CheckCache(p) ==
    /\ pc[p] = "check"
    /\ IF CacheHit(p)
       THEN IF Loadable(embFile.content)
            THEN /\ pc' = [pc EXCEPT ![p] = "ready"]
                 /\ tensor' = [tensor EXCEPT ![p] = torch_load(embFile.content)]
                 /\ path' = [path EXCEPT ![p] = "fast"]
                 /\ UNCHANGED <<exc, vault_embeddings>>
            ELSE /\ Raise(p, "UnpicklingError")
                 /\ UNCHANGED <<tensor, path, vault_embeddings>>
       ELSE /\ pc' = [pc EXCEPT ![p] = "generate"]
            /\ vault_embeddings' = [vault_embeddings EXCEPT ![p] = NewEmbeddings]
            /\ UNCHANGED <<tensor, path, exc>>
    /\ UNCHANGED <<fileVars, ghostVars, vault_content, saved_checksum,
                   current_checksum, calls, srcBytes, startRec, startStale,
                   disturbed, chatVars>>

\* a loop that gives up what it has collected when a response has no vector
CollectOrReset(embeddings, resp) ==
    IF "embedding" \in DOMAIN resp THEN Append(embeddings, resp.embedding)
    ELSE <<>>

\* SesameChat.py 46: what the loop keeps of a response
Collect(embeddings, resp) ==
    IF "embedding" \in DOMAIN resp THEN Append(embeddings, resp.embedding)
    ELSE embeddings

\* SesameChat.py 43-48: one iteration of the loop over vault_content
EmbedEntry(p) ==
    /\ pc[p] = "generate"
    /\ Len(calls[p]) < Len(vault_content[p])
    /\ LET content == vault_content[p][Len(calls[p]) + 1] IN
       \E resp \in EmbeddingsResponses(content) :
          /\ calls' = [calls EXCEPT ![p] = Append(@,
                 [prompt |-> content, ok |-> "embedding" \in DOMAIN resp])]
          /\ vault_embeddings' = [vault_embeddings EXCEPT ![p] = Collect(@, resp)]
    /\ UNCHANGED <<fileVars, ghostVars, pc, vault_content, saved_checksum,
                   current_checksum, tensor, exc, srcBytes, path, startRec,
                   startStale, disturbed, chatVars>>

\* SesameChat.py 50-53: build the tensor; torch.save opens the file, which
\* empties it
BeginSave(p) ==
    /\ pc[p] = "generate"
    /\ Len(calls[p]) = Len(vault_content[p])
    /\ pc' = [pc EXCEPT ![p] = "saving"]
    /\ tensor' = [tensor EXCEPT ![p] = torch_tensor(vault_embeddings[p])]
    /\ embFile' = [exists |-> TRUE, readable |-> TRUE, content |-> PartialPickle]
    /\ validRec' = NoRecord
    /\ UNCHANGED <<vaultFile, checksumFile, embSrc, embFp, vault_content,
                   saved_checksum, current_checksum, vault_embeddings, exc,
                   calls, srcBytes, path, startRec, startStale, disturbed,
                   chatVars>>

\* SesameChat.py 53: torch.save has written the whole pickle
FinishSave(p) ==
    /\ pc[p] = "saving"
    /\ pc' = [pc EXCEPT ![p] = "open_checksum"]
    /\ embFile' = File(torch_save(tensor[p]))
    /\ validRec' = NoRecord
    /\ embSrc' = srcBytes[p]
    /\ embFp' = current_checksum[p]
    /\ UNCHANGED <<vaultFile, checksumFile, callVars, chatVars>>

\* SesameChat.py 54: open(CHECKSUM_FILE, "w") empties the file
OpenChecksum(p) ==
    /\ pc[p] = "open_checksum"
    /\ pc' = [pc EXCEPT ![p] = "write_checksum"]
    /\ checksumFile' = File(<<>>)
    /\ validRec' = NoRecord
    /\ UNCHANGED <<vaultFile, embFile, embSrc, embFp, callVars, chatVars>>

\* the cache record on disk is valid (spec 3): the stored fingerprint is
\* the fingerprint of the vault as it is, and the matrix is there
RecordOnDisk ==
    IF /\ vaultFile.exists
       /\ checksumFile.exists /\ checksumFile.readable
       /\ checksumFile.content = compute_md5(vaultFile.content)
       /\ embFile.exists /\ Loadable(embFile.content)
    THEN [set |-> TRUE, matrix |-> torch_load(embFile.content)]
    ELSE NoRecord

\* SesameChat.py 55-57: write the digest, close the file, return
WriteChecksum(p) ==
    /\ pc[p] = "write_checksum"
    /\ pc' = [pc EXCEPT ![p] = "ready"]
    /\ checksumFile' = File(current_checksum[p])
    /\ path' = [path EXCEPT ![p] = "slow"]
    /\ UNCHANGED <<vaultFile, embFile, embSrc, embFp, vault_content,
                   saved_checksum, current_checksum, vault_embeddings, tensor,
                   exc, calls, srcBytes, startRec, startStale, disturbed,
                   chatVars>>
    /\ validRec' = RecordOnDisk'

(***************************************************************************)
(* ollama_chat (SesameChat.py 76-108) for one question, and the loop or    *)
(* handler that calls it (SesameChat.py 132-138, SesameChatAPI.py          *)
(* 121-131).                                                               *)
(***************************************************************************)
SystemMessage == [role |-> "system", content |-> <<"s">>]

\* SesameChat.py 133-137: a question arrives and ollama_chat is entered
ChatBegin(t, q, k) ==
    /\ pc[MainProc] = "ready"
    /\ cpc[t] = "idle"
    /\ asked < MaxChats
    /\ asked' = asked + 1
    /\ cpc' = [cpc EXCEPT ![t] = "context"]
    /\ user_input' = [user_input EXCEPT ![t] = q]
    /\ top_k' = [top_k EXCEPT ![t] = k]
    /\ relevant_context' = [relevant_context EXCEPT ![t] = <<>>]
    /\ outcome' = [outcome EXCEPT ![t] = NoOutcome]
    /\ request' = [request EXCEPT ![t] = <<>>]
    /\ response' = [response EXCEPT ![t] = "none"]
    /\ UNCHANGED <<fileVars, ghostVars, loadVars, conversation_history>>

\* SesameChat.py 78: the call of get_relevant_context
GetContext(t) ==
    /\ cpc[t] = "context"
    /\ \E resp \in EmbeddingsResponses(user_input[t]) :
       \E o \in get_relevant_context(resp, tensor[MainProc],
                                     vault_content[MainProc], top_k[t]) :
          /\ outcome' = [outcome EXCEPT ![t] = o]
          /\ IF o.kind = "return"
             THEN /\ relevant_context' = [relevant_context EXCEPT ![t] = o.value]
                  /\ cpc' = [cpc EXCEPT ![t] = "append_user"]
             ELSE /\ cpc' = [cpc EXCEPT ![t] = "raised"]
                  /\ UNCHANGED relevant_context
    /\ UNCHANGED <<fileVars, ghostVars, loadVars, user_input, top_k, request,
                   response, conversation_history, asked>>

\* line 87 without its condition: the separator is always put in front
WithContextAlways(context, input) ==
    Join(context, <<"\n">>) \o <<"\n", "\n">> \o input

\* SesameChat.py 81-87
WithContext(context, input) ==
    IF context # <<>> THEN Join(context, <<"\n">>) \o <<"\n", "\n">> \o input
    ELSE input

\* SesameChat.py 87-90
AppendUser(t) ==
    /\ cpc[t] = "append_user"
    /\ cpc' = [cpc EXCEPT ![t] = "send"]
    /\ conversation_history' = Append(conversation_history,
           [role |-> "user",
            content |-> WithContext(relevant_context[t], user_input[t])])
    /\ UNCHANGED <<fileVars, ghostVars, loadVars, user_input, top_k,
                   relevant_context, outcome, request, response, asked>>

\* SesameChat.py 93-99: the completion request; the service answers with
\* content, without it, or the call raises
SendCompletion(t) ==
    /\ cpc[t] = "send"
    /\ request' = [request EXCEPT ![t] = <<SystemMessage>> \o conversation_history]
    /\ \E r \in {"content", "nocontent", "raise"} :
          /\ response' = [response EXCEPT ![t] = r]
          /\ cpc' = [cpc EXCEPT ![t] = IF r = "raise" THEN "raised" ELSE "reply"]
    /\ UNCHANGED <<fileVars, ghostVars, loadVars, user_input, top_k,
                   relevant_context, outcome, conversation_history, asked>>

\* SesameChat.py 102-108
AppendAssistant(t) ==
    /\ cpc[t] = "reply"
    /\ cpc' = [cpc EXCEPT ![t] = "idle"]
    /\ \E reply \in Replies :
          conversation_history' = Append(conversation_history,
              [role |-> "assistant",
               content |-> IF response[t] = "content" THEN reply
                           ELSE <<"N", "o">>])
    /\ UNCHANGED <<fileVars, ghostVars, loadVars, user_input, top_k,
                   relevant_context, outcome, request, response, asked>>

(***************************************************************************)
(* The environment: the process ends (it is killed, it quits, or an        *)
(* exception has ended it), the vault is edited, a cache file is deleted   *)
(* or damaged.                                                             *)
(*                                                                         *)
(* A process reads vault.txt and the cache files only up to its decision   *)
(* at line 37 and only writes afterwards, and the chat reads no file.  An  *)
(* edit made after the decision therefore shows to the next process        *)
(* exactly as the same edit made once this process has ended, and the      *)
(* edits are taken while no process is past its decision.                  *)
(***************************************************************************)
BeforeDecision(p) == pc[p] \in {"idle", "read_checksum", "compute_md5", "check"}

Crash(p) ==
    /\ pc[p] # "idle"
    /\ pc' = [pc EXCEPT ![p] = "idle"]
    /\ vault_content' = [vault_content EXCEPT ![p] = <<>>]
    /\ srcBytes' = [srcBytes EXCEPT ![p] = <<>>]
    /\ startRec' = [startRec EXCEPT ![p] = NoRecord]
    /\ startStale' = [startStale EXCEPT ![p] = FALSE]
    /\ disturbed' = [disturbed EXCEPT ![p] = FALSE]
    /\ ResetCall(p)
    /\ IF p = MainProc
       THEN /\ cpc' = [t \in Threads |-> "idle"]
            /\ user_input' = [t \in Threads |-> <<>>]
            /\ top_k' = [t \in Threads |-> TOP_K]
            /\ relevant_context' = [t \in Threads |-> <<>>]
            /\ outcome' = [t \in Threads |-> NoOutcome]
            /\ request' = [t \in Threads |-> <<>>]
            /\ response' = [t \in Threads |-> "none"]
            /\ conversation_history' = <<>>
            /\ asked' = 0
       ELSE UNCHANGED chatVars
    /\ UNCHANGED <<fileVars, ghostVars>>

\* the running calls have had a file changed under them
Disturb ==
    /\ disturbed' = [p \in Procs |-> disturbed[p] \/ pc[p] # "idle"]
    /\ UNCHANGED <<pc, vault_content, saved_checksum, current_checksum,
                   vault_embeddings, tensor, exc, calls, srcBytes, path,
                   startRec, startStale>>

EditVault ==
    /\ \A p \in Procs : BeforeDecision(p)
    /\ \E f \in {File(c) : c \in VaultContents} \cup {AbsentText} :
          /\ f # vaultFile
          /\ vaultFile' = f
    /\ validRec' = NoRecord
    /\ Disturb
    /\ UNCHANGED <<embFile, checksumFile, embSrc, embFp, chatVars>>

DamageCache ==
    /\ \A p \in Procs : BeforeDecision(p)
    /\ \/ /\ embFile.exists
          /\ embFile' \in {AbsentPickle, File(PartialPickle)}
          /\ embFile' # embFile
          /\ UNCHANGED checksumFile
       \/ /\ checksumFile.exists
          /\ checksumFile' \in {AbsentText, UndecodableText}
          /\ checksumFile' # checksumFile
          /\ UNCHANGED embFile
    /\ validRec' = NoRecord
    /\ Disturb
    /\ UNCHANGED <<vaultFile, embSrc, embFp, chatVars>>

Load(p) ==
    \/ StartUp(p)
    \/ ReadChecksum(p)
    \/ ComputeMd5(p)
    \/ CheckCache(p)
    \/ EmbedEntry(p)
    \/ BeginSave(p)
    \/ FinishSave(p)
    \/ OpenChecksum(p)
    \/ WriteChecksum(p)

Chat(t) ==
    \/ \E q \in Queries : ChatBegin(t, q, TOP_K)
    \/ GetContext(t)
    \/ AppendUser(t)
    \/ SendCompletion(t)
    \/ AppendAssistant(t)

Next ==
    \/ Load(MainProc)
    \/ Chat(MainThread)
    \/ Crash(MainProc)
    \/ EditVault
    \/ DamageCache

Spec == Init /\ [][Next]_vars

(***************************************************************************)
(* The retrieval on its own: get_relevant_context applied to a matrix, a   *)
(* corpus, a question and a top_k drawn from bounded sets.                 *)
(***************************************************************************)
RowPool == {Embed(Line1), Embed(Line2), Embed(Line3), <<0, 0>>}

SeqsUpTo(S, n) == UNION {[1..m -> S] : m \in 0..n}

RetrievalQueries == Queries \cup { <<" ">> }

InitRetrieval ==
    /\ vaultFile = AbsentText
    /\ embFile = AbsentPickle
    /\ checksumFile = AbsentText
    /\ validRec = NoRecord
    /\ embSrc = <<>>
    /\ embFp = <<>>
    /\ pc = [p \in Procs |-> IF p = MainProc THEN "ready" ELSE "idle"]
    /\ \E rows \in SeqsUpTo(RowPool, MaxRows) :
          tensor = [p \in Procs |-> IF p = MainProc THEN torch_tensor(rows)
                                    ELSE EmptyTensor]
    /\ \E content \in SeqsUpTo({Line1, Line2}, MaxRows) :
          vault_content = [p \in Procs |-> IF p = MainProc THEN content ELSE <<>>]
    /\ saved_checksum = [p \in Procs |-> <<>>]
    /\ current_checksum = [p \in Procs |-> <<>>]
    /\ vault_embeddings = [p \in Procs |-> <<>>]
    /\ exc = [p \in Procs |-> ""]
    /\ calls = [p \in Procs |-> <<>>]
    /\ srcBytes = [p \in Procs |-> <<>>]
    /\ path = [p \in Procs |-> "none"]
    /\ startRec = [p \in Procs |-> NoRecord]
    /\ startStale = [p \in Procs |-> FALSE]
    /\ disturbed = [p \in Procs |-> FALSE]
    /\ InitChat

NextRetrieval ==
    \/ \E q \in RetrievalQueries, k \in 0..MaxK : ChatBegin(MainThread, q, k)
    \/ GetContext(MainThread)

SpecRetrieval == InitRetrieval /\ [][NextRetrieval]_vars

(***************************************************************************)
(* Properties.                                                             *)
(***************************************************************************)
\* the request has been through get_relevant_context
Answered(t) == outcome[t].kind # "none"

\* the scores of the rows of the main process's matrix for the question of t
ScoresFor(t) == cosine_similarity(Embed(user_input[t]), tensor[MainProc])

Range(f) == {f[i] : i \in DOMAIN f}

\* C4: for a non-empty matrix, what get_relevant_context returns are the
\* stripped texts at the indices of the k highest-scoring rows, each row once,
\* in descending order of score: no row left out scores higher than a row
\* returned, and no returned row scores lower than the one after it.
C4_TopKOrdering ==
    \A t \in Threads :
       (outcome[t].kind = "return" /\ outcome[t].called) =>
          LET idx == outcome[t].indices
              sc == ScoresFor(t)
          IN  /\ Len(outcome[t].value) = Len(idx)
              /\ \A n \in 1..Len(idx) :
                    /\ idx[n] \in 0..(Len(sc) - 1)
                    /\ outcome[t].value[n] = Strip(vault_content[MainProc][idx[n] + 1])
              /\ \A n, m \in 1..Len(idx) : n # m => idx[n] # idx[m]
              /\ \A n \in 1..(Len(idx) - 1) :
                    ~ScoreLess(sc[idx[n] + 1], sc[idx[n + 1] + 1])
              /\ \A j \in (0..(Len(sc) - 1)) \ Range(idx) :
                    \A n \in 1..Len(idx) : ~ScoreLess(sc[idx[n] + 1], sc[j + 1])

\* C4 witness: three rows scoring high, low, middle and k = 2: rows 0 and 2
\* are returned in that order
C4_Witness ==
    /\ outcome[MainThread].kind = "return"
    /\ top_k[MainThread] = 2
    /\ NumRows(tensor[MainProc]) = 3
    /\ outcome[MainThread].indices = <<0, 2>>
    /\ ScoreLess(ScoresFor(MainThread)[2], ScoresFor(MainThread)[3])
    /\ ScoreLess(ScoresFor(MainThread)[3], ScoresFor(MainThread)[1])

\* C5: for every k >= 0 and every matrix of n rows, get_relevant_context
\* returns min(k, n) entries and raises nothing (the embedding service having
\* answered for the question).
C5_KClamping ==
    \A t \in Threads :
       (Answered(t) /\ outcome[t].error # "KeyError") =>
          /\ outcome[t].kind = "return"
          /\ Len(outcome[t].value) = Min(top_k[t], RowCount(tensor[MainProc]))

\* C6: with a matrix of zero rows get_relevant_context returns the empty list
\* and has not called the embedding service, whatever the question and k.
C6_EmptyMatrix ==
    \A t \in Threads :
       (Answered(t) /\ RowCount(tensor[MainProc]) = 0) =>
          /\ outcome[t].kind = "return"
          /\ outcome[t].value = <<>>
          /\ ~outcome[t].called

\* C6 witness: a question was answered from a zero-row matrix with k > 0 and
\* a corpus that has lines
C6_Witness ==
    /\ Answered(MainThread)
    /\ RowCount(tensor[MainProc]) = 0
    /\ top_k[MainThread] > 0
    /\ vault_content[MainProc] # <<>>

\* the prompts of the calls a process made, in order
Prompts(p) == [i \in 1..Len(calls[p]) |-> calls[p][i].prompt]

RECURSIVE VectorsOf(_)
\* the vectors of the calls that were answered, in order
VectorsOf(cs) ==
    IF cs = <<>> THEN <<>>
    ELSE (IF Head(cs).ok THEN <<Embed(Head(cs).prompt)>> ELSE <<>>)
         \o VectorsOf(Tail(cs))

PastDecision(p) ==
    pc[p] \in {"generate", "saving", "open_checksum", "write_checksum"}

\* C1: when a process enters load_or_generate_embeddings with a valid cache
\* record on disk that an earlier call persisted, and no file is changed
\* under it, the call does not raise, makes no call of the embedding service
\* and returns by the fast path exactly the matrix that was persisted.
C1_CacheHit ==
    \A p \in Procs :
       (startRec[p].set /\ ~disturbed[p]) =>
          /\ ~PastDecision(p)
          /\ pc[p] # "raised"
          /\ calls[p] = <<>>
          /\ pc[p] = "ready" =>
                /\ path[p] = "fast"
                /\ tensor[p] = startRec[p].matrix

\* C1 witness: a fast-path return of a persisted matrix that has rows
C1_Witness ==
    /\ pc[MainProc] = "ready"
    /\ startRec[MainProc].set
    /\ ~disturbed[MainProc]
    /\ path[MainProc] = "fast"
    /\ RowCount(tensor[MainProc]) = 2

\* C2: when a process enters the call while the vault's fingerprint is not
\* the persisted one (or none is persisted), and no file is changed under
\* it, the call returns by the slow path: it has called the embedding
\* service once per entry of its corpus, in corpus order, its matrix is made
\* of exactly the vectors those calls returned, and the matrix file and the
\* fingerprint file hold the new matrix and the new fingerprint.
C2_Invalidation ==
    \A p \in Procs :
       (pc[p] = "ready" /\ startStale[p] /\ ~disturbed[p]) =>
          /\ path[p] = "slow"
          /\ Prompts(p) = vault_content[p]
          /\ RowsOf(tensor[p]) = VectorsOf(calls[p])
          /\ embFile = File(torch_save(tensor[p]))
          /\ checksumFile = File(compute_md5(vaultFile.content))
          /\ current_checksum[p] = compute_md5(vaultFile.content)

\* C2 witness: a regeneration over a stale cache that held another matrix
C2_Witness ==
    /\ pc[MainProc] = "ready"
    /\ startStale[MainProc]
    /\ ~disturbed[MainProc]
    /\ Len(calls[MainProc]) = 2
    /\ saved_checksum[MainProc] # <<>>
    /\ saved_checksum[MainProc] # current_checksum[MainProc]

\* the matrix on disk was written whole by a call whose lines and fingerprint
\* came from the same vault content
WrittenFromOneContent ==
    /\ embFile.exists /\ Loadable(embFile.content)
    /\ embFp = compute_md5(embSrc)

\* C3: no crash during persistence leaves on disk a matrix next to the
\* fingerprint of a content it was not generated from: a call that reads its
\* corpus and its fingerprint from one content of the vault never returns by
\* the fast path a matrix that was generated from another content.
C3_CrashSafety ==
    \A p \in Procs :
       (/\ pc[p] = "ready" /\ path[p] = "fast" /\ ~disturbed[p]
        /\ WrittenFromOneContent)
          => embSrc = srcBytes[p]

\* C7: whenever load_or_generate_embeddings has returned, the matrix has one
\* row per corpus entry and row i is the embedding of entry i.
C7_IndexAlignment ==
    \A p \in Procs :
       pc[p] = "ready" =>
          RowsOf(tensor[p]) =
             [i \in 1..Len(vault_content[p]) |-> Embed(vault_content[p][i])]

\* C8: a fingerprint file or matrix file that is there but cannot be read or
\* deserialised does not make load_or_generate_embeddings raise.
C8_CorruptCacheIsMiss ==
    \A p \in Procs : exc[p] \notin {"UnicodeDecodeError", "UnpicklingError"}

\* C9: with vault.txt missing, start-up completes without a fatal error.
C9_MissingCorpus ==
    \A p \in Procs : exc[p] # "FileNotFoundError"

\* the embedding service failed for every entry of a corpus that has entries
TotalFailure(p) ==
    /\ calls[p] # <<>>
    /\ Len(calls[p]) = Len(vault_content[p])
    /\ \A i \in 1..Len(calls[p]) : ~calls[p][i].ok

NextConcurrent ==
    \/ \E p \in Procs : Load(p)
    \/ EditVault

SpecConcurrent == Init /\ [][NextConcurrent]_vars

\* no call is between its first read and its last write
Quiescent == \A p \in Procs : pc[p] \in {"idle", "ready", "raised"}

\* C11: two concurrent calls of load_or_generate_embeddings over the same
\* cache files do not interleave their check-then-write sequences: once both
\* are done, the matrix file and the fingerprint file were written by the
\* same call: the fingerprint on disk is the fingerprint of the content the
\* matrix on disk was generated from (each caller having read its lines and
\* its fingerprint from one content of the vault).
C11_MutualExclusion ==
    (/\ Quiescent
     /\ \A p \in Procs :
           pc[p] = "ready" => current_checksum[p] = compute_md5(srcBytes[p])
     /\ WrittenFromOneContent
     /\ checksumFile.exists /\ checksumFile.readable)
       => Strip(checksumFile.content) = compute_md5(embSrc)

\* a matrix is persisted, can be loaded and has at least one row
PersistedNonEmpty ==
    /\ embFile.exists /\ Loadable(embFile.content)
    /\ RowCount(torch_load(embFile.content)) > 0

\* C12: the decision of line 37 takes the fast path exactly when the
\* persisted fingerprint equals the fingerprint just computed and a persisted
\* matrix is present and non-empty; in every other case, a persisted matrix
\* of zero rows included, the call goes on to regenerate.
C12_CacheValidity ==
    [][\A p \in Procs :
          (pc[p] = "check" /\ pc'[p] \in {"ready", "generate"}) =>
             (pc'[p] = "ready" <=>
                 (saved_checksum[p] = current_checksum[p] /\ PersistedNonEmpty))]_vars

\* the call has left the loop of lines 43-48
Generated(p) ==
    \/ pc[p] \in {"saving", "open_checksum", "write_checksum"}
    \/ pc[p] = "ready" /\ path[p] = "slow"

C14_QueryFailure ==
    \A t \in Threads :
       outcome[t].called =>
          ~(outcome[t].kind = "raise" /\ outcome[t].error = "KeyError")

\* C16: after any runs, edits of the vault, failures of the embedding service
\* and crashes, the matrix a process hands to get_relevant_context has at
\* most as many rows as its vault_content has entries, so no index that topk
\* selects falls outside vault_content.
C16_IndexInRange ==
    /\ \A p \in Procs :
          pc[p] = "ready" => RowCount(tensor[p]) <= Len(vault_content[p])
    /\ \A t \in Threads : outcome[t].error # "IndexError"

\* C17: the fingerprint a call persists is the fingerprint of the corpus
\* content its matrix was generated from, also when vault.txt is changed
\* between the reading of the lines at start-up and the computing of the
\* fingerprint.
C17_FingerprintOfContent ==
    \A p \in Procs :
       (pc[p] = "ready" /\ path[p] = "slow") =>
          current_checksum[p] = compute_md5(srcBytes[p])

(***************************************************************************)
(* The /chat endpoint (SesameChatAPI.py 121-131).  The server handles      *)
(* requests on threads that share conversation_history, the matrix and     *)
(* the corpus of the process; no statement of the handler or of            *)
(* ollama_chat takes a lock.                                               *)
(***************************************************************************)
MaxRequests == 2

\* request.json: a body with the question, with an empty one, without one
RequestBodies ==
    {[user_input |-> q] : q \in Queries \cup {<<>>}} \cup {[model |-> <<"m">>]}

\* SesameChatAPI.py 126: data.get("user_input", "")
UserInputOf(data) ==
    IF "user_input" \in DOMAIN data THEN data.user_input ELSE <<>>

\* a handler that lets every request through
NeverMissing(input) == FALSE

\* SesameChatAPI.py 128: not user_input
Missing(input) == input = <<>>

\* SesameChatAPI.py 125-131: the request is rejected with status 400, or
\* ollama_chat is entered with top_k = 3
ChatRequest(t, data) ==
    /\ pc[MainProc] = "ready"
    /\ cpc[t] = "idle"
    /\ asked < MaxRequests
    /\ asked' = asked + 1
    /\ user_input' = [user_input EXCEPT ![t] = UserInputOf(data)]
    /\ cpc' = [cpc EXCEPT ![t] =
                  IF Missing(UserInputOf(data)) THEN "rejected" ELSE "context"]
    /\ top_k' = [top_k EXCEPT ![t] = TOP_K]
    /\ relevant_context' = [relevant_context EXCEPT ![t] = <<>>]
    /\ outcome' = [outcome EXCEPT ![t] = NoOutcome]
    /\ request' = [request EXCEPT ![t] = <<>>]
    /\ response' = [response EXCEPT ![t] = "none"]
    /\ UNCHANGED <<fileVars, ghostVars, loadVars, conversation_history>>

\* SesameChatAPI.py 71
WithContextAPI(context, input) ==
    IF context # <<>>
    THEN Join(context, <<"\n", "\n">>) \o <<"\n", "\n">> \o input
    ELSE input

\* SesameChatAPI.py 71-72
AppendUserAPI(t) ==
    /\ cpc[t] = "append_user"
    /\ cpc' = [cpc EXCEPT ![t] = "send"]
    /\ conversation_history' = Append(conversation_history,
           [role |-> "user",
            content |-> WithContextAPI(relevant_context[t], user_input[t])])
    /\ UNCHANGED <<fileVars, ghostVars, loadVars, user_input, top_k,
                   relevant_context, outcome, request, response, asked>>

\* SesameChatAPI.py 129 and 134: the 400 is sent, or the server answers 500
\* for the exception that left the handler; the thread is free again and the
\* process lives on
Respond(t) ==
    /\ cpc[t] \in {"rejected", "raised"}
    /\ cpc' = [cpc EXCEPT ![t] = "idle"]
    /\ UNCHANGED <<fileVars, ghostVars, loadVars, user_input, top_k,
                   relevant_context, outcome, request, response,
                   conversation_history, asked>>

Handle(t) ==
    \/ \E data \in RequestBodies : ChatRequest(t, data)
    \/ GetContext(t)
    \/ AppendUserAPI(t)
    \/ SendCompletion(t)
    \/ AppendAssistant(t)
    \/ Respond(t)

\* SesameChatAPI.py 84-94: the server starts serving after a start-up that
\* found no cache and embedded every line of the vault
InitAPI ==
    \E c \in VaultContents :
       LET lines == ReadLines(c)
           rows == [i \in 1..Len(lines) |-> Embed(lines[i])]
           isMain == [p \in Procs |-> p = MainProc]
       IN  /\ vaultFile = File(c)
           /\ embFile = File(torch_save(torch_tensor(rows)))
           /\ checksumFile = File(compute_md5(c))
           /\ validRec = [set |-> TRUE, matrix |-> torch_tensor(rows)]
           /\ embSrc = c
           /\ embFp = compute_md5(c)
           /\ pc = [p \in Procs |-> IF isMain[p] THEN "ready" ELSE "idle"]
           /\ vault_content = [p \in Procs |-> IF isMain[p] THEN lines ELSE <<>>]
           /\ saved_checksum = [p \in Procs |-> <<>>]
           /\ current_checksum =
                 [p \in Procs |-> IF isMain[p] THEN compute_md5(c) ELSE <<>>]
           /\ vault_embeddings = [p \in Procs |-> IF isMain[p] THEN rows ELSE <<>>]
           /\ tensor = [p \in Procs |-> IF isMain[p] THEN torch_tensor(rows)
                                        ELSE EmptyTensor]
           /\ exc = [p \in Procs |-> ""]
           /\ calls = [p \in Procs |->
                 IF isMain[p]
                 THEN [i \in 1..Len(lines) |-> [prompt |-> lines[i], ok |-> TRUE]]
                 ELSE <<>>]
           /\ srcBytes = [p \in Procs |-> IF isMain[p] THEN c ELSE <<>>]
           /\ path = [p \in Procs |-> IF isMain[p] THEN "slow" ELSE "none"]
           /\ startRec = [p \in Procs |-> NoRecord]
           /\ startStale = [p \in Procs |-> isMain[p]]
           /\ disturbed = [p \in Procs |-> FALSE]
           /\ InitChat

NextAPI == \E t \in Threads : Handle(t)

SpecAPI == InitAPI /\ [][NextAPI]_vars

\* no request is being handled
NoRequestOpen == \A t \in Threads : cpc[t] = "idle"

\* user, assistant, user, assistant, ...: every user message has its reply
\* right after it
Alternates(history) ==
    /\ Len(history) % 2 = 0
    /\ \A i \in 1..Len(history) :
          history[i].role = IF i % 2 = 1 THEN "user" ELSE "assistant"

\* C18: every ollama_chat call appends to the shared conversation_history one
\* user message and right after it one assistant message and changes no
\* earlier element, so that after any requests, concurrent ones and ones
\* whose completion call raised included, the history alternates user,
\* assistant, user, assistant.
C18_HistoryWellFormed ==
    /\ NoRequestOpen => Alternates(conversation_history)
    /\ \A i \in 1..(Len(conversation_history) - 1) :
          conversation_history[i].role = "user" =>
             conversation_history[i + 1].role = "assistant"

\* C19: a POST /chat whose user_input is missing or empty is answered with
\* status 400: the handler returns before ollama_chat, so neither the
\* embedding service nor the completion service is called for it and
\* conversation_history is left as it was; any other request enters
\* ollama_chat.
C19_RejectedRequest ==
    [][\A t \in Threads :
          /\ (cpc[t] = "idle" /\ cpc'[t] # "idle") =>
                IF user_input'[t] = <<>>
                THEN /\ cpc'[t] = "rejected"
                     /\ conversation_history' = conversation_history
                ELSE cpc'[t] = "context"
          /\ cpc'[t] = "rejected" =>
                /\ ~outcome'[t].called
                /\ request'[t] = <<>>
                /\ response'[t] = "none"
          /\ (cpc[t] = "rejected" /\ cpc'[t] # "rejected") =>
                /\ cpc'[t] = "idle"
                /\ conversation_history' = conversation_history]_vars

\* C19 witness: after a request that was answered, a request without a
\* question has been rejected and the history still holds the two messages
C19_Witness ==
    /\ cpc["t1"] = "rejected"
    /\ user_input["t1"] = <<>>
    /\ Len(conversation_history) = 2
    /\ cpc["t2"] = "idle"

====
